---- MODULE Spec2Model ----
(***************************************************************************)
(* A model of magnus' typed-data protocol (src/src/typed_data.rs): the     *)
(* DataType descriptor and its builder, the collector trampolines, the     *)
(* typed handle Obj<T> (wrap / get / try_convert) and the Hash / IsEql     *)
(* bridge.  The host runtime (the collector, RHash) is the environment.    *)
(***************************************************************************)
EXTENDS Integers, Sequences, FiniteSets, TLC

(* ------------------------------------------------------------------ *)
(* Bounds of the model                                                  *)
(* ------------------------------------------------------------------ *)
\* how many DataTypeBuilder::build() calls one behaviour makes
MaxBuilds == 2
\* how many Obj::wrap calls one behaviour makes
MaxWraps == 2

(* ------------------------------------------------------------------ *)
(* Program constants                                                    *)
(* ------------------------------------------------------------------ *)
RUBY_TYPED_FREE_IMMEDIATELY == 1
RUBY_TYPED_WB_PROTECTED == 32
RUBY_TYPED_FROZEN_SHAREABLE == 256

\* build.rs: the versions the probe compares the host version with
RUBY_VERSIONS == << <<2, 7>>, <<3, 0>>, <<3, 1>> >>

\* host versions the model is checked on (major, minor)
HostVersions == { <<2, 6>>, <<2, 7>>, <<3, 0>>, <<3, 1>> }

\* the native types of the program under test; T and U share a host class
Types == {"T", "U"}

VARIABLES
    version,    \* the probed host version (build.rs), fixed for a behaviour
    rstring,    \* the host string as_str is called on: encoding and bytes
    probe,      \* build.rs main: versions compared so far, cfgs printed
    proc,       \* "running" | "aborted" (bug_from_panic)
    builder,    \* the DataTypeBuilder under construction, or NoBuilder
    descs,      \* built DataTypes: state and wrap_struct_name pointer
    cstrs,      \* the heap of CString name storage, by address
    nbuilds,    \* number of build() calls so far
    slots,      \* the host heap: the object in each slot
    boxes,      \* every Box<T> made by wrap, by pointer (index)
    handles,    \* the Obj<T> handles the native code holds
    rhash,      \* a host mapping (RHash): its entries
    hashed,     \* every result typed_data::Hash::hash returned, by box
    last        \* the last operation, its inputs and its result

bvars == <<builder, descs, cstrs, nbuilds>>
cvars == <<version, rstring, probe>>
hvars == <<slots, boxes, handles, rhash, hashed>>
vars == <<version, rstring, probe, proc, builder, descs, cstrs, nbuilds, slots,
          boxes, handles, rhash, hashed, last>>

(* ------------------------------------------------------------------ *)
(* build.rs: version comparison conditionals                            *)
(* ------------------------------------------------------------------ *)
\* Rust's tuple ordering on (u8, u8): lexicographic
TupleLt(a, b) == a[1] < b[1] \/ (a[1] = b[1] /\ a[2] < b[2])

ruby_lt(ver, v) == TupleLt(ver, v)
ruby_lte(ver, v) == ver[1] < v[1] \/ (ver[1] = v[1] /\ ver[2] <= v[2])
ruby_eq(ver, v) == ver = v

\* a comparison that takes >= for >
ruby_gte_strict(ver, v) == TupleLt(v, ver)

ruby_gte(ver, v) == ver[1] > v[1] \/ (ver[1] = v[1] /\ ver[2] >= v[2])
ruby_gt(ver, v) == TupleLt(v, ver)

(* ------------------------------------------------------------------ *)
(* DataTypeBuilder                                                      *)
(* ------------------------------------------------------------------ *)
NoBuilder == [name |-> <<>>, T |-> "-", mark |-> FALSE, size |-> FALSE,
              compact |-> FALSE, free_immediately |-> FALSE,
              wb_protected |-> FALSE, frozen_shareable |-> FALSE,
              open |-> FALSE]

\* the names tried: "f", the empty name (no valid identifier), and a name
\* with an interior NUL byte ("a\0")
Names == { <<102>>, <<>>, <<97, 0>> }

Toggles == {"mark", "size", "compact", "free_immediately", "wb_protected",
            "frozen_shareable"}

DataTypeBuilder_new(name, t) ==
    [name |-> name, T |-> t, mark |-> FALSE, size |-> FALSE,
     compact |-> FALSE, free_immediately |-> FALSE, wb_protected |-> FALSE,
     frozen_shareable |-> FALSE, open |-> TRUE]

DataTypeBuilder_toggle(b, which) ==
    CASE which = "mark" -> [b EXCEPT !.mark = TRUE]
      [] which = "size" -> [b EXCEPT !.size = TRUE]
      [] which = "compact" -> [b EXCEPT !.compact = TRUE]
      [] which = "free_immediately" -> [b EXCEPT !.free_immediately = TRUE]
      [] which = "wb_protected" -> [b EXCEPT !.wb_protected = TRUE]
      [] which = "frozen_shareable" -> [b EXCEPT !.frozen_shareable = TRUE]

NullFn == [fn |-> "null", T |-> "-"]
AbsentFn == [fn |-> "absent", T |-> "-"]
Fn(f, t) == [fn |-> f, T |-> t]

\* self.x.then(|| f): Some(f) when x, None (a null slot) otherwise
Then(x, f) == IF x THEN f ELSE NullFn

\* CString::new(name): an error when the bytes hold an interior NUL
HasNul(bytes) == \E i \in 1..Len(bytes) : bytes[i] = 0

CString_new(bytes) ==
    IF HasNul(bytes) THEN [ok |-> FALSE, bytes |-> <<>>]
    ELSE [ok |-> TRUE, bytes |-> Append(bytes, 0)]

\* flags |= bit, on flag words in which the bit is a power of two
BitOr(flags, bit) == IF (flags \div bit) % 2 = 1 THEN flags ELSE flags + bit

\* a build that sets the frozen-shareable bit on every host version
build_flags_ungated(b, ver) ==
    LET f1 == IF b.free_immediately
              THEN BitOr(0, RUBY_TYPED_FREE_IMMEDIATELY) ELSE 0
        f2 == IF b.wb_protected
              THEN BitOr(f1, RUBY_TYPED_WB_PROTECTED) ELSE f1
        f3 == IF b.frozen_shareable
              THEN BitOr(f2, RUBY_TYPED_FROZEN_SHAREABLE) ELSE f2
    IN f3

build_flags(b, ver) ==
    LET f1 == IF b.free_immediately
              THEN BitOr(0, RUBY_TYPED_FREE_IMMEDIATELY) ELSE 0
        f2 == IF b.wb_protected
              THEN BitOr(f1, RUBY_TYPED_WB_PROTECTED) ELSE f1
        f3 == IF ruby_gte(ver, <<3, 0>>) /\ b.frozen_shareable
              THEN BitOr(f2, RUBY_TYPED_FROZEN_SHAREABLE) ELSE f2
    IN f3

\* a build that decides the mark slot by the size request
build_dmark_from_size(b) == Then(b.size, Fn("extern_mark", b.T))

build_dmark(b) == Then(b.mark, Fn("extern_mark", b.T))

\* a build that installs free only on request, like the other callbacks
build_dfree_optional(b) == Then(b.free_immediately, Fn("extern_free", b.T))

build_dfree(b) == Fn("extern_free", b.T)

\* a build that installs size whether requested or not
build_dsize_always(b) == Fn("extern_size", b.T)

build_dsize(b) == Then(b.size, Fn("extern_size", b.T))

\* a build that fills the compact slot on every host version
build_dcompact_any_version(b, ver) ==
    Then(b.compact, Fn("extern_compact", b.T))

build_dcompact(b, ver) ==
    IF ruby_gte(ver, <<2, 7>>) THEN Then(b.compact, Fn("extern_compact", b.T))
    ELSE AbsentFn

\* DataTypeBuilder::build: the rb_data_type_t it returns, the name storage
\* being the CString handed over with into_raw (an address chosen by the
\* allocator, see Build); panics (unwrap) on a name with an interior NUL
build(b, ver) ==
    LET cs == CString_new(b.name)
    IN [panicked |-> ~cs.ok,
        name_bytes |-> cs.bytes,
        function |-> [dmark |-> build_dmark(b),
                      dfree |-> build_dfree(b),
                      dsize |-> build_dsize(b),
                      dcompact |-> build_dcompact(b, ver),
                      reserved |-> IF ruby_gte(ver, <<2, 7>>) THEN 1 ELSE 2],
        parent |-> "null",
        data |-> "null",
        flags |-> build_flags(b, ver)]

(* ------------------------------------------------------------------ *)
(* The descriptor table and the CString heap                            *)
(* ------------------------------------------------------------------ *)
DescIds == 1..MaxBuilds
Addrs == 1..MaxBuilds

NoDesc == [state |-> "none", wrap_struct_name |-> 0]
FreeCell == [live |-> FALSE, bytes |-> <<>>, owner |-> 0]

\* the CString heap: the cells by address, and per owning descriptor how
\* often its name storage was released; bad_frees counts releases of an
\* address that holds no live CString (a double free)
EmptyHeap == [cells |-> [a \in Addrs |-> FreeCell],
              released |-> [d \in DescIds |-> 0],
              bad_frees |-> 0]

\* CString::into_raw at address a, for descriptor d
cstr_alloc(heap, a, bytes, d) ==
    [heap EXCEPT !.cells[a] = [live |-> TRUE, bytes |-> bytes, owner |-> d]]

\* drop(CString::from_raw(a)): releases the storage at a
cstr_free(heap, a) ==
    IF heap.cells[a].live
    THEN [heap EXCEPT !.cells[a].live = FALSE,
                      !.released[heap.cells[a].owner] = @ + 1]
    ELSE [heap EXCEPT !.bad_frees = @ + 1]

\* a Drop that leaves the name storage allocated
DataType_drop_leak(heap, desc) == heap

\* impl Drop for DataType
DataType_drop(heap, desc) == cstr_free(heap, desc.wrap_struct_name)

NoLast == [op |-> "none"]
NoRString == [enc |-> "-", bytes |-> <<>>]
NoProbe == [i |-> 0, cfgs |-> {}]

\* the host heap of the model: two object slots, reused after a sweep
Slots == {1, 2}
FreeSlot == [kind |-> "free", klass |-> "-", type |-> "-", data |-> 0]

InitBuild ==
    /\ version \in HostVersions
    /\ rstring = NoRString
    /\ probe = NoProbe
    /\ proc = "running"
    /\ builder = NoBuilder
    /\ descs = [d \in DescIds |-> NoDesc]
    /\ cstrs = EmptyHeap
    /\ nbuilds = 0
    /\ slots = [s \in Slots |-> FreeSlot]
    /\ boxes = <<>>
    /\ handles = {}
    /\ rhash = <<>>
    /\ hashed = {}
    /\ last = NoLast

\* DataTypeBuilder::new(name) / DataType::builder(name)
BNew(name, t) ==
    /\ proc = "running"
    /\ ~builder.open
    /\ nbuilds < MaxBuilds
    /\ builder' = DataTypeBuilder_new(name, t)
    /\ last' = [op |-> "new"]
    /\ UNCHANGED <<cvars, proc, descs, cstrs, nbuilds, hvars>>

\* one of the six no-argument toggles
BToggle(which) ==
    /\ proc = "running"
    /\ builder.open
    /\ builder' = DataTypeBuilder_toggle(builder, which)
    /\ builder' # builder
    /\ last' = [op |-> "toggle"]
    /\ UNCHANGED <<cvars, proc, descs, cstrs, nbuilds, hvars>>

\* build(self): consumes the builder; the allocator picks any free
\* address.  A panic of build unwinds to the caller, which goes on.
Build ==
    /\ proc = "running"
    /\ builder.open
    /\ LET r == build(builder, version)
           d == nbuilds + 1
       IN IF r.panicked
          THEN /\ last' = [op |-> "build", b |-> builder, panicked |-> TRUE,
                           d |-> 0, dt |-> r]
               /\ UNCHANGED <<proc, descs, cstrs>>
          ELSE \E a \in Addrs :
               /\ ~cstrs.cells[a].live
               /\ cstrs' = cstr_alloc(cstrs, a, r.name_bytes, d)
               /\ descs' = [descs EXCEPT ![d] =
                               [state |-> "live", wrap_struct_name |-> a]]
               /\ last' = [op |-> "build", b |-> builder, panicked |-> FALSE,
                           d |-> d, dt |-> r]
               /\ UNCHANGED proc
    /\ builder' = NoBuilder
    /\ nbuilds' = nbuilds + 1
    /\ UNCHANGED <<cvars, hvars>>

\* a DataType going out of scope: impl Drop for DataType runs once
DDrop(d) ==
    /\ proc = "running"
    /\ descs[d].state = "live"
    /\ cstrs' = DataType_drop(cstrs, descs[d])
    /\ descs' = [descs EXCEPT ![d].state = "dropped"]
    /\ last' = [op |-> "drop", d |-> d]
    /\ UNCHANGED <<cvars, proc, builder, nbuilds, hvars>>

NextBuild ==
    \/ \E name \in Names, t \in Types : BNew(name, t)
    \/ \E which \in Toggles : BToggle(which)
    \/ Build
    \/ \E d \in DescIds : DDrop(d)

SpecBuild == InitBuild /\ [][NextBuild]_vars

(* ------------------------------------------------------------------ *)
(* The program under test: two native types implementing TypedData      *)
(* ------------------------------------------------------------------ *)
\* TypedData::class: T and U are wrapped as the same host class
class(t) == IF t \in {"T", "U"} THEN "Foo" ELSE "Object"

\* the capabilities each type's data_type() opts into
ProgramToggles(t) ==
    CASE t = "T" -> {"mark", "size", "compact", "free_immediately"}
      [] t = "U" -> {}

ProgramBuilder(t) ==
    [name |-> <<102>>, T |-> t,
     mark |-> "mark" \in ProgramToggles(t),
     size |-> "size" \in ProgramToggles(t),
     compact |-> "compact" \in ProgramToggles(t),
     free_immediately |-> "free_immediately" \in ProgramToggles(t),
     wb_protected |-> "wb_protected" \in ProgramToggles(t),
     frozen_shareable |-> "frozen_shareable" \in ProgramToggles(t),
     open |-> TRUE]

\* TypedData::data_type: a static DataType, memoized, so the same pointer
\* (id) on every call
data_type(t) == [id |-> t, rb |-> build(ProgramBuilder(t), version)]

\* native values: k is what Eq and Hash look at, id tells apart two
\* instances that are equal (the doc test's Pair of two host values)
NativeVals == [k : {0, 1}, id : {0, 1}]

\* std::mem::size_of_val(self)
size_of_val(t) == CASE t = "T" -> 16 [] t = "U" -> 8

\* DataTypeFunctions::size: the default, which both types keep
DataTypeFunctions_size(t, v) == size_of_val(t)

(* ------------------------------------------------------------------ *)
(* Trampolines                                                          *)
(* ------------------------------------------------------------------ *)
\* std::panic::catch_unwind of a callback that panics or not
catch_unwind(panics) == IF panics THEN "Err" ELSE "Ok"

\* error::bug_from_panic: the process is terminated
bug_from_panic == "aborted"

\* DataTypeFunctions::free(self: Box<Self>): the box is owned by free, so
\* the value's destructor runs and its memory is released when free
\* returns, or while a panic of free unwinds its frame
DataTypeFunctions_free(b, panics) ==
    [b EXCEPT !.state = "freed", !.frees = @ + 1, !.drops = @ + 1]

\* a free trampoline that loses the box when free panics
extern_free_leak_on_panic(b, panics) ==
    [outcome |-> IF catch_unwind(panics) = "Err" THEN "abort" ELSE "return",
     box |-> IF catch_unwind(panics) = "Err"
             THEN [b EXCEPT !.state = "freed", !.frees = @ + 1]
             ELSE DataTypeFunctions_free(b, panics),
     size |-> 0]

\* extern_free: Self::free(Box::from_raw(ptr)) under catch_unwind
extern_free(b, panics) ==
    [outcome |-> IF catch_unwind(panics) = "Err" THEN "abort" ELSE "return",
     box |-> DataTypeFunctions_free(b, panics),
     size |-> 0]

\* a mark trampoline that takes the box by ownership, as free does
extern_mark_owning(b, panics) ==
    [outcome |-> IF catch_unwind(panics) = "Err" THEN "abort" ELSE "return",
     box |-> [b EXCEPT !.state = "freed", !.frees = @ + 1],
     size |-> 0]

extern_mark(b, panics) ==
    [outcome |-> IF catch_unwind(panics) = "Err" THEN "abort" ELSE "return",
     box |-> b,
     size |-> 0]

\* a size trampoline that answers 0 instead of aborting on a panic
extern_size_swallow(b, panics) ==
    [outcome |-> "return",
     box |-> b,
     size |-> IF catch_unwind(panics) = "Err" THEN 0
              ELSE DataTypeFunctions_size(b.T, b.val)]

extern_size(b, panics) ==
    [outcome |-> IF catch_unwind(panics) = "Err" THEN "abort" ELSE "return",
     box |-> b,
     size |-> IF catch_unwind(panics) = "Err" THEN 0
              ELSE DataTypeFunctions_size(b.T, b.val)]

extern_compact(b, panics) ==
    [outcome |-> IF catch_unwind(panics) = "Err" THEN "abort" ELSE "return",
     box |-> b,
     size |-> 0]

\* the trampoline a function slot points to
Trampoline(fn, b, panics) ==
    CASE fn.fn = "extern_free" -> extern_free(b, panics)
      [] fn.fn = "extern_mark" -> extern_mark(b, panics)
      [] fn.fn = "extern_size" -> extern_size(b, panics)
      [] fn.fn = "extern_compact" -> extern_compact(b, panics)

\* the process after a trampoline: terminated, or back in the collector
\* (a panic that unwinds into the collector's frames leaves it running
\* in an undefined state)
AfterTrampoline(outcome) ==
    IF outcome = "abort" THEN bug_from_panic ELSE "running"

(* ------------------------------------------------------------------ *)
(* RTypedData and Obj<T>                                                *)
(* ------------------------------------------------------------------ *)
ImmValues == {[tag |-> "nil", slot |-> 0], [tag |-> "rdata", slot |-> 0]}
ObjValue(s) == [tag |-> "obj", slot |-> s]

\* Value::classname
classname(heap, val) ==
    CASE val.tag = "nil" -> "NilClass"
      [] val.tag = "str" -> "String"
      [] val.tag = "rdata" -> "Object"
      [] val.tag = "obj" -> heap[val.slot].klass

NewBox(t, v) == [T |-> t, val |-> v, state |-> "live", allocs |-> 1,
                 frees |-> 0, drops |-> 0]

\* RTypedData::wrap: Box::new(data), then rb_data_typed_object_wrap with
\* T::class() and T::data_type() into slot s
RTypedData_wrap(heap, s, t, ptr) ==
    [heap EXCEPT ![s] = [kind |-> "typed_data", klass |-> class(t),
                         type |-> data_type(t).id, data |-> ptr]]

\* RTypedData::from_value: Some for a typed-data object, None otherwise
RTypedData_from_value(heap, val) ==
    IF val.tag = "obj" /\ heap[val.slot].kind = "typed_data"
    THEN [some |-> TRUE, inner |-> val.slot]
    ELSE [some |-> FALSE, inner |-> 0]

NoVal == [k |-> -1, id |-> -1]
NoErr == [kind |-> "none", actual |-> "-", expected |-> "-"]

\* "no implicit conversion of {actual} into {expected}"
NoImplicitConversion(actual, expected) ==
    [kind |-> "no implicit conversion", actual |-> actual,
     expected |-> expected]

\* RTypedData::get::<T> / get_unconstrained: rb_check_typeddata against
\* T's DataType, by pointer; an error when the object wraps another type
RTypedData_get(heap, bxs, inner, t) ==
    IF heap[inner].kind = "typed_data" /\ heap[inner].type = data_type(t).id
    THEN [ok |-> TRUE, val |-> bxs[heap[inner].data].val, err |-> NoErr]
    ELSE [ok |-> FALSE, val |-> NoVal,
          err |-> [kind |-> "wrong argument type",
                   actual |-> heap[inner].klass, expected |-> class(t)]]

\* RubyHandle::obj_wrap: the Obj around the RTypedData
obj_wrap(inner, t) == [inner |-> inner, T |-> t, rooted |-> TRUE]

\* a get that unwraps the error instead of the value
Obj_get_unwrap_err(heap, bxs, h) ==
    LET r == RTypedData_get(heap, bxs, h.inner, h.T)
    IN [panicked |-> r.ok, val |-> NoVal]

\* Obj::get: self.inner.get().unwrap()
Obj_get(heap, bxs, h) ==
    LET r == RTypedData_get(heap, bxs, h.inner, h.T)
    IN [panicked |-> ~r.ok, val |-> r.val]

\* impl Clone for Obj<T>: *self
Obj_clone(h) == h

\* a conversion to Value that loses the object reference
Obj_into_value_nil(h) == [tag |-> "nil", slot |-> 0]

\* impl From<Obj<T>> for Value / IntoValue: *val.inner
Obj_into_value(h) == ObjValue(h.inner)

NoObj == [inner |-> 0, T |-> "-", rooted |-> FALSE]

\* the threads a call can come from: the host's thread and another one
Threads == {"ruby", "other"}

\* get_ruby!(): the handle to the host runtime, obtained only on the
\* thread the runtime is bound to; a panic anywhere else
get_ruby(th) == [ok |-> th = "ruby"]

\* a wrap that goes on without the runtime handle
Obj_wrap_unchecked(th, inner, t) ==
    [panicked |-> FALSE, obj |-> obj_wrap(inner, t)]

\* Obj::wrap: get_ruby!().obj_wrap(data)
Obj_wrap(th, inner, t) ==
    IF get_ruby(th).ok THEN [panicked |-> FALSE, obj |-> obj_wrap(inner, t)]
    ELSE [panicked |-> TRUE, obj |-> NoObj]

\* a conversion that stops after the kind check
try_convert_kind_only(heap, bxs, val, t) ==
    LET inner == RTypedData_from_value(heap, val)
    IN IF ~inner.some
       THEN [ok |-> FALSE, obj |-> NoObj,
             err |-> NoImplicitConversion(classname(heap, val), class(t))]
       ELSE [ok |-> TRUE, obj |-> obj_wrap(inner.inner, t), err |-> NoErr]

\* a conversion whose kind error names the two classes the wrong way round
try_convert_names_swapped(heap, bxs, val, t) ==
    LET inner == RTypedData_from_value(heap, val)
    IN IF ~inner.some
       THEN [ok |-> FALSE, obj |-> NoObj,
             err |-> NoImplicitConversion(class(t), classname(heap, val))]
       ELSE LET r == RTypedData_get(heap, bxs, inner.inner, t)
            IN IF ~r.ok THEN [ok |-> FALSE, obj |-> NoObj, err |-> r.err]
               ELSE [ok |-> TRUE, obj |-> obj_wrap(inner.inner, t),
                     err |-> NoErr]

\* impl TryConvert for Obj<T>
try_convert(heap, bxs, val, t) ==
    LET inner == RTypedData_from_value(heap, val)
    IN IF ~inner.some
       THEN [ok |-> FALSE, obj |-> NoObj,
             err |-> NoImplicitConversion(classname(heap, val), class(t))]
       ELSE LET r == RTypedData_get(heap, bxs, inner.inner, t)
            IN IF ~r.ok THEN [ok |-> FALSE, obj |-> NoObj, err |-> r.err]
               ELSE [ok |-> TRUE, obj |-> obj_wrap(inner.inner, t),
                     err |-> NoErr]

\* impl TryConvert for &T
try_convert_ref(heap, bxs, val, t) ==
    LET inner == RTypedData_from_value(heap, val)
    IN IF ~inner.some
       THEN [ok |-> FALSE, val |-> NoVal,
             err |-> NoImplicitConversion(classname(heap, val), class(t))]
       ELSE RTypedData_get(heap, bxs, inner.inner, t)

(* ------------------------------------------------------------------ *)
(* Wrap, get, convert and the collector                                 *)
(* ------------------------------------------------------------------ *)
\* the host version the heap specification runs on (one with compaction)
CoreVersion == <<3, 1>>

\* the native values the heap specification wraps: two values of T, one
\* of each other type
CoreVals == {v \in NativeVals : v.id = 0}
WrapVals(t) == IF t = "T" THEN CoreVals ELSE {[k |-> 0, id |-> 0]}

\* the untyped host values the native code can hold: immediates and other
\* objects, and the objects behind its handles while they are allocated
HeldValues ==
    ImmValues \cup
    {Obj_into_value(h) : h \in {x \in handles : slots[x.inner].kind # "free"}}

\* the collector may reclaim an object no rooted handle and no mapping
\* designates
Reachable(s) ==
    \/ \E h \in handles : h.inner = s /\ h.rooted
    \/ \E i \in 1..Len(rhash) : rhash[i].key = s

Init ==
    /\ version = CoreVersion
    /\ rstring = NoRString
    /\ probe = NoProbe
    /\ proc = "running"
    /\ builder = NoBuilder
    /\ descs = [d \in DescIds |-> NoDesc]
    /\ cstrs = EmptyHeap
    /\ nbuilds = 0
    /\ slots = [s \in Slots |-> FreeSlot]
    /\ boxes = <<>>
    /\ handles = {}
    /\ rhash = <<>>
    /\ hashed = {}
    /\ last = NoLast

\* Obj::wrap(data) called on thread th: get_ruby!() panics off the host's
\* thread, before anything is allocated (the panic unwinds to the caller);
\* otherwise the host allocates a free slot
Wrap(th, t, v) ==
    /\ proc = "running"
    /\ \/ /\ Obj_wrap(th, 0, t).panicked
          /\ last' = [op |-> "wrap", th |-> th, T |-> t, v |-> v,
                      panicked |-> TRUE, obj |-> NoObj, ptr |-> 0]
          /\ UNCHANGED <<slots, boxes, handles>>
       \/ /\ Len(boxes) < MaxWraps
          /\ \E s \in Slots :
               /\ slots[s].kind = "free"
               /\ \A s2 \in Slots : s2 < s => slots[s2].kind # "free"
               /\ ~Obj_wrap(th, s, t).panicked
               /\ LET ptr == Len(boxes) + 1
                      obj == Obj_wrap(th, s, t).obj
                  IN /\ boxes' = Append(boxes, NewBox(t, v) @@ [slot |-> s])
                     /\ slots' = RTypedData_wrap(slots, s, t, ptr)
                     /\ handles' = handles \cup {obj}
                     /\ last' = [op |-> "wrap", th |-> th, T |-> t, v |-> v,
                                 panicked |-> FALSE, obj |-> obj,
                                 ptr |-> ptr]
    /\ UNCHANGED <<cvars, proc, bvars, rhash, hashed>>

\* Obj::get(&self); on a handle whose object was reclaimed the read is
\* undefined: it panics or yields any value.  A panic of get unwinds to
\* the caller, which goes on.
Get(h) ==
    /\ proc = "running"
    /\ h \in handles
    /\ IF slots[h.inner].kind = "free"
       THEN \E r \in {[panicked |-> TRUE, val |-> NoVal]} \cup
                     {[panicked |-> FALSE, val |-> v] : v \in CoreVals} :
            last' = [op |-> "get", h |-> h, dangling |-> TRUE, r |-> r]
       ELSE LET r == Obj_get(slots, boxes, h)
            IN last' = [op |-> "get", h |-> h, dangling |-> FALSE, r |-> r]
    /\ UNCHANGED <<cvars, proc, bvars, hvars>>

\* a copy of a handle (Obj<T> is Copy)
Copy(h) ==
    /\ proc = "running"
    /\ h \in handles
    /\ handles' = handles \cup {Obj_clone(h)}
    /\ last' = [op |-> "copy", h |-> h, obj |-> Obj_clone(h)]
    /\ UNCHANGED <<cvars, proc, bvars, slots, boxes, rhash, hashed>>

\* the native code moves a handle off the stack, into memory the
\* collector does not scan
Stash(h) ==
    /\ proc = "running"
    /\ h \in handles
    /\ h.rooted
    /\ handles' = (handles \ {h}) \cup {[h EXCEPT !.rooted = FALSE]}
    /\ last' = [op |-> "stash", h |-> h]
    /\ UNCHANGED <<cvars, proc, bvars, slots, boxes, rhash, hashed>>

\* a handle goes out of scope
Forget(h) ==
    /\ proc = "running"
    /\ h \in handles
    /\ handles' = handles \ {h}
    /\ last' = [op |-> "forget", h |-> h]
    /\ UNCHANGED <<cvars, proc, bvars, slots, boxes, rhash, hashed>>

\* Obj::<T>::try_convert(val)
TryConvert(val, t) ==
    /\ proc = "running"
    /\ val \in HeldValues
    /\ LET r == try_convert(slots, boxes, val, t)
       IN /\ handles' = IF r.ok THEN handles \cup {r.obj} ELSE handles
          /\ last' = [op |-> "try_convert", val |-> val, T |-> t, r |-> r]
    /\ UNCHANGED <<cvars, proc, bvars, slots, boxes, rhash, hashed>>

\* the collector calls the function in a slot of the object's DataType
\* with the object's data pointer; a null slot is not called.  After a
\* free callback that returns, the object's slot is swept.
GcCallback(opname, s, fn, sweep) ==
    /\ proc = "running"
    /\ slots[s].kind = "typed_data"
    /\ LET ptr == slots[s].data
       IN IF fn.fn \in {"null", "absent"}
          THEN /\ last' = [op |-> opname, s |-> s, ptr |-> ptr,
                           T |-> slots[s].type, called |-> FALSE,
                           panicked |-> FALSE, outcome |-> "return",
                           size |-> 0]
               /\ slots' = IF sweep THEN [slots EXCEPT ![s] = FreeSlot]
                           ELSE slots
               /\ UNCHANGED <<proc, boxes>>
          ELSE \E p \in BOOLEAN :
               LET r == Trampoline(fn, boxes[ptr], p)
               IN /\ boxes' = [boxes EXCEPT ![ptr] = r.box]
                  /\ proc' = AfterTrampoline(r.outcome)
                  /\ slots' = IF sweep /\ r.outcome = "return"
                              THEN [slots EXCEPT ![s] = FreeSlot]
                              ELSE slots
                  /\ last' = [op |-> opname, s |-> s, ptr |-> ptr,
                              T |-> slots[s].type, called |-> TRUE,
                              panicked |-> p, outcome |-> r.outcome,
                              size |-> r.size]
    /\ UNCHANGED <<cvars, bvars, handles, rhash, hashed>>

DescOf(s) == data_type(slots[s].type).rb

GcMark(s) == GcCallback("gc_mark", s, DescOf(s).function.dmark, FALSE)

GcSize(s) == GcCallback("gc_size", s, DescOf(s).function.dsize, FALSE)

GcCompact(s) ==
    GcCallback("gc_compact", s, DescOf(s).function.dcompact, FALSE)

GcFree(s) ==
    /\ ~Reachable(s)
    /\ GcCallback("gc_free", s, DescOf(s).function.dfree, TRUE)

Next ==
    \/ \E th \in Threads, t \in Types : \E v \in WrapVals(t) : Wrap(th, t, v)
    \/ \E h \in handles : Get(h)
    \/ \E h \in handles : Copy(h)
    \/ \E h \in handles : Stash(h)
    \/ \E h \in handles : Forget(h)
    \/ \E val \in HeldValues, t \in Types : TryConvert(val, t)
    \/ \E s \in Slots : GcMark(s)
    \/ \E s \in Slots : GcSize(s)
    \/ \E s \in Slots : GcCompact(s)
    \/ \E s \in Slots : GcFree(s)

Spec == Init /\ [][Next]_vars

(* ------------------------------------------------------------------ *)
(* The Hash / IsEql bridge                                              *)
(* ------------------------------------------------------------------ *)
\* 64-bit words are four 16-bit limbs, most significant first; an i64
\* has a signed first limb
Limb == 65536
HalfLimb == 32768

\* DefaultHasher::new(): SipHash with the fixed keys (0, 0); its state
\* starts from the constant "somepseu" (0x736f6d6570736575)
DefaultHasher_new == <<29551, 28005, 28787, 25973>>

\* Hasher::write_i64: the word is mixed into every limb of the state
\* (the mixing of std's SipHash is abstracted by a fixed multiply-add)
write_i64(st, w) ==
    [i \in 1..4 |-> (st[i] * 251 + (w + 1) * (7919 * i + 13)) % Limb]

\* Hasher::finish: a u64
finish(st) == [i \in 1..4 |-> (st[i] * 25173 + 13849 * i) % Limb]

\* the native type's std::hash::Hash: it feeds what its Eq compares (the
\* doc test's Pair feeds the host hashes of its two fields)
std_hash(v, st) == write_i64(st, v.k)

\* the native type's Eq (the doc test's Pair compares its fields with eql)
eq(a, b) == a.k = b.k

\* a cast that turns every value above i64::MAX into 0
as_i64_clamp(u) == IF u[1] >= HalfLimb THEN <<0, 0, 0, 0>> ELSE u

\* u64 as i64: the same 64 bits, the first limb read as signed
as_i64(u) == [u EXCEPT ![1] = IF u[1] >= HalfLimb THEN u[1] - Limb ELSE u[1]]

\* a hash of the instance (its address) instead of its std::hash::Hash
hash_of_instance(v) ==
    as_i64(finish(write_i64(std_hash(v, DefaultHasher_new), v.id)))

\* impl Hash for T: typed_data::Hash::hash
hash(v) == as_i64(finish(std_hash(v, DefaultHasher_new)))

\* Result::map(|o| self == o)
map_eq(self, r) == [ok |-> r.ok, val |-> r.ok /\ eq(self, r.val)]

\* Result::unwrap_or(default)
unwrap_or(r, default) ==
    [result |-> IF r.ok THEN r.val ELSE default, raised |-> FALSE]

\* Result::unwrap(): panics on Err
unwrap(r) == [result |-> r.ok /\ r.val, raised |-> ~r.ok]

\* an is_eql that unwraps the conversion
is_eql_unwrap(heap, bxs, self, other, t) ==
    unwrap(map_eq(self, try_convert_ref(heap, bxs, other, t)))

\* an is_eql that compares the instances (pointer equality)
is_eql_same_instance(heap, bxs, self, other, t) ==
    LET r == try_convert_ref(heap, bxs, other, t)
    IN unwrap_or([ok |-> r.ok, val |-> r.ok /\ self = r.val], FALSE)

\* impl IsEql for T: typed_data::IsEql::is_eql
is_eql(heap, bxs, self, other, t) ==
    unwrap_or(map_eq(self, try_convert_ref(heap, bxs, other, t)), FALSE)

\* the native value behind the object in slot s
ValOf(s) == boxes[slots[s].data].val

\* the host calling the `hash` method of the object in slot s
HostHash(s) == hash(ValOf(s))

\* the host calling the `eql?` method of the object in slot s
HostEql(s, other) == is_eql(slots, boxes, ValOf(s), other, slots[s].type)

\* the host mapping's search for key k: the first entry of the same hash
\* that is the same object or that k.eql? accepts
RHash_find(k) ==
    LET hits == {i \in 1..Len(rhash) :
                   /\ rhash[i].hash = HostHash(k)
                   /\ (rhash[i].key = k
                         \/ HostEql(k, ObjValue(rhash[i].key)).result)}
    IN IF hits = {} THEN 0 ELSE CHOOSE i \in hits : \A j \in hits : i <= j

\* the native values the mapping specification wraps
HashVals(t) == IF t = "T" THEN NativeVals ELSE {[k |-> 0, id |-> 0]}

StoredVals == {"v1", "v2"}

IsT(s) == slots[s].kind = "typed_data" /\ slots[s].type = "T"

\* the host calls <T as typed_data::Hash>::hash on a T
HashCall(s) ==
    /\ proc = "running"
    /\ IsT(s)
    /\ hashed' = hashed \cup {[ptr |-> slots[s].data, h |-> HostHash(s)]}
    /\ last' = [op |-> "hash", s |-> s, h |-> HostHash(s)]
    /\ UNCHANGED <<cvars, proc, bvars, slots, boxes, handles, rhash>>

\* the host calls <T as typed_data::IsEql>::is_eql on a T with any value
IsEqlCall(s, other) ==
    /\ proc = "running"
    /\ IsT(s)
    /\ other \in HeldValues
    /\ last' = [op |-> "is_eql", s |-> s, other |-> other,
                r |-> HostEql(s, other)]
    /\ UNCHANGED <<cvars, proc, bvars, hvars>>

\* RHash::aset(k, v) with a wrapped T as key
Aset(k, v) ==
    /\ proc = "running"
    /\ IsT(k)
    /\ LET i == RHash_find(k)
       IN rhash' = IF i = 0
                   THEN Append(rhash, [key |-> k, hash |-> HostHash(k),
                                       val |-> v])
                   ELSE [rhash EXCEPT ![i].val = v]
    /\ last' = [op |-> "aset", k |-> k, v |-> v]
    /\ UNCHANGED <<cvars, proc, bvars, slots, boxes, handles, hashed>>

\* RHash::fetch(k) / RHash::get(k) with a wrapped T as key
Fetch(k) ==
    /\ proc = "running"
    /\ IsT(k)
    /\ LET i == RHash_find(k)
       IN last' = [op |-> "fetch", k |-> k, found |-> i # 0,
                   val |-> IF i = 0 THEN "none" ELSE rhash[i].val]
    /\ UNCHANGED <<cvars, proc, bvars, hvars>>

NextHash ==
    \/ \E th \in Threads, t \in Types : \E v \in HashVals(t) : Wrap(th, t, v)
    \/ \E s \in Slots : HashCall(s)
    \/ \E s \in Slots, other \in HeldValues : IsEqlCall(s, other)
    \/ \E k \in Slots, v \in StoredVals : Aset(k, v)
    \/ \E k \in Slots : Fetch(k)

SpecHash == Init /\ [][NextHash]_vars

(* ------------------------------------------------------------------ *)
(* RString::as_str                                                      *)
(* ------------------------------------------------------------------ *)
\* the longest host string examined
MaxStrLen == 3

\* the encodings a host string can be labelled with
Encodings == {"UTF-8", "US-ASCII", "ASCII-8BIT"}
rb_utf8_encindex == "UTF-8"
rb_usascii_encindex == "US-ASCII"

\* the bytes host strings are made of: an ASCII letter, continuation
\* bytes, and leading bytes of two- and three-byte sequences
StrBytes == {65, 128, 160, 192, 195, 224, 237}

RECURSIVE SeqsUpTo(_, _)
SeqsUpTo(S, n) ==
    IF n = 0 THEN {<<>>}
    ELSE LET shorter == SeqsUpTo(S, n - 1)
         IN shorter \cup {Append(q, b) : q \in shorter, b \in S}

RStrings == [enc : Encodings, bytes : SeqsUpTo(StrBytes, MaxStrLen)]

\* a check that takes every encoding for a compatible one
is_utf8_compatible_encoding_any(rs) == TRUE

\* RString::is_utf8_compatible_encoding
is_utf8_compatible_encoding(rs) ==
    rs.enc = rb_utf8_encindex \/ rs.enc = rb_usascii_encindex

\* RString::as_slice_unconstrained: the string's bytes
as_slice_unconstrained(rs) == rs.bytes

\* core::str::validations: the width a leading byte announces, 0 for a
\* byte that cannot lead
UTF8_CHAR_WIDTH(b) ==
    CASE b < 128 -> 1
      [] b \in 194..223 -> 2
      [] b \in 224..239 -> 3
      [] b \in 240..244 -> 4
      [] OTHER -> 0

\* the range the second byte of a sequence must lie in, by leading byte
SecondByteRange(first) ==
    CASE first = 224 -> 160..191
      [] first = 237 -> 128..159
      [] first = 240 -> 144..191
      [] first = 244 -> 128..143
      [] OTHER -> 128..191

\* core::str::run_utf8_validation from byte i on: the index after the
\* last byte when all is valid, else the index of the first byte of the
\* first invalid sequence
RECURSIVE run_utf8_validation(_, _)
run_utf8_validation(v, i) ==
    IF i > Len(v) THEN i
    ELSE LET w == UTF8_CHAR_WIDTH(v[i])
         IN IF /\ w # 0
               /\ i + w - 1 <= Len(v)
               /\ (w >= 2 => v[i + 1] \in SecondByteRange(v[i]))
               /\ \A j \in (i + 2)..(i + w - 1) : v[j] \in 128..191
            THEN run_utf8_validation(v, i + w)
            ELSE i

\* str::from_utf8: the slice itself, or a Utf8Error with valid_up_to
from_utf8(v) ==
    LET n == run_utf8_validation(v, 1)
    IN IF n = Len(v) + 1
       THEN [ok |-> TRUE, str |-> v, valid_up_to |-> Len(v)]
       ELSE [ok |-> FALSE, str |-> <<>>, valid_up_to |-> n - 1]

\* Error::encoding_error(msg)
encoding_error(msg) == [kind |-> "encoding_error", msg |-> msg]

\* RString::as_str / as_str_unconstrained
as_str(rs) ==
    IF ~is_utf8_compatible_encoding(rs)
    THEN [ok |-> FALSE, str |-> <<>>,
          err |-> encoding_error(<<"expected utf-8, got", rs.enc>>)]
    ELSE LET r == from_utf8(as_slice_unconstrained(rs))
         IN IF r.ok THEN [ok |-> TRUE, str |-> r.str, err |-> NoErr]
            ELSE [ok |-> FALSE, str |-> <<>>,
                  err |-> encoding_error(<<"Utf8Error", r.valid_up_to>>)]

InitStr ==
    /\ version = CoreVersion
    /\ rstring \in RStrings
    /\ probe = NoProbe
    /\ proc = "running"
    /\ builder = NoBuilder
    /\ descs = [d \in DescIds |-> NoDesc]
    /\ cstrs = EmptyHeap
    /\ nbuilds = 0
    /\ slots = [s \in Slots |-> FreeSlot]
    /\ boxes = <<>>
    /\ handles = {}
    /\ rhash = <<>>
    /\ hashed = {}
    /\ last = NoLast

\* RString::as_str on the host string
AsStr ==
    /\ proc = "running"
    /\ last' = [op |-> "as_str", r |-> as_str(rstring)]
    /\ UNCHANGED <<cvars, proc, bvars, hvars>>

NextStr == AsStr

SpecStr == InitStr /\ [][NextStr]_vars

(* ------------------------------------------------------------------ *)
(* build.rs: the host version probe                                     *)
(* ------------------------------------------------------------------ *)
\* the largest major and minor version number probed
MaxMajor == 3
MaxMinor == 7

\* the (major, minor) pairs RUBY_API_VERSION can parse to
ProbeVersions == {<<a, b>> : a \in 0..MaxMajor, b \in 0..MaxMinor}

\* println!("cargo:rustc-cfg=ruby_<rel>_<v.0>_<v.1>")
Cfg(rel, v) == [rel |-> rel, v |-> v]

\* one iteration of the loop over RUBY_VERSIONS: the cfgs printed for v
probe_cfgs(ver, v) ==
    (IF ruby_lt(ver, v) THEN {Cfg("lt", v)} ELSE {})
    \cup (IF ruby_lte(ver, v) THEN {Cfg("lte", v)} ELSE {})
    \cup (IF ruby_eq(ver, v) THEN {Cfg("eq", v)} ELSE {})
    \cup (IF ruby_gte(ver, v) THEN {Cfg("gte", v)} ELSE {})
    \cup (IF ruby_gt(ver, v) THEN {Cfg("gt", v)} ELSE {})

InitProbe ==
    /\ version \in ProbeVersions
    /\ rstring = NoRString
    /\ probe = NoProbe
    /\ proc = "running"
    /\ builder = NoBuilder
    /\ descs = [d \in DescIds |-> NoDesc]
    /\ cstrs = EmptyHeap
    /\ nbuilds = 0
    /\ slots = [s \in Slots |-> FreeSlot]
    /\ boxes = <<>>
    /\ handles = {}
    /\ rhash = <<>>
    /\ hashed = {}
    /\ last = NoLast

\* the next iteration of `for &v in &RUBY_VERSIONS`
ProbeStep ==
    /\ probe.i < Len(RUBY_VERSIONS)
    /\ LET v == RUBY_VERSIONS[probe.i + 1]
       IN /\ probe' = [i |-> probe.i + 1,
                       cfgs |-> probe.cfgs \cup probe_cfgs(version, v)]
          /\ last' = [op |-> "probe", v |-> v]
    /\ UNCHANGED <<version, rstring, proc, bvars, hvars>>

NextProbe == ProbeStep

SpecProbe == InitProbe /\ [][NextProbe]_vars

(* ------------------------------------------------------------------ *)
(* Properties of wrap / get / convert and of the collector callbacks    *)
(* ------------------------------------------------------------------ *)
GcOps == {"gc_free", "gc_mark", "gc_size", "gc_compact"}

\* box i is still held by the object wrap made for it
Unfreed(i) ==
    /\ boxes[i].state = "live"
    /\ slots[boxes[i].slot].kind = "typed_data"
    /\ slots[boxes[i].slot].data = i

\* C1: wrap(v) followed by get() on the returned handle yields v, as long
\* as the collector has not freed the object: in every state, for every
\* value wrapped and not freed, and for every get() that ran on such a
\* handle.
C1_WrapGetRoundTrip ==
    /\ \A i \in 1..Len(boxes) :
         Unfreed(i) =>
           Obj_get(slots, boxes, obj_wrap(boxes[i].slot, boxes[i].T))
             = [panicked |-> FALSE, val |-> boxes[i].val]
    /\ (last.op = "wrap" /\ ~last.panicked =>
          /\ Unfreed(last.ptr)
          /\ boxes[last.ptr].val = last.v
          /\ last.obj = obj_wrap(boxes[last.ptr].slot, last.T))
    /\ (last.op = "get" /\ ~last.dangling =>
          \A i \in 1..Len(boxes) :
            Unfreed(i) /\ boxes[i].slot = last.h.inner /\ boxes[i].T = last.h.T
              => last.r = [panicked |-> FALSE, val |-> boxes[i].val])

\* a get() returned the second value of T from the handle of its wrap
C1_Witness ==
    /\ last.op = "get"
    /\ ~last.dangling
    /\ last.h.T = "T"
    /\ last.r = [panicked |-> FALSE, val |-> [k |-> 1, id |-> 0]]
    /\ Len(boxes) = 2

\* C2: Obj<T>::try_convert of a host value that wraps a U whose DataType
\* is not T's returns an error and no Obj<T>, also when T and U are
\* wrapped as the same host class.
C2_ForeignDescriptorRejected ==
    last.op = "try_convert" /\ last.val.tag = "obj"
      /\ slots[last.val.slot].kind = "typed_data"
      /\ data_type(slots[last.val.slot].type).id # data_type(last.T).id
    => /\ ~last.r.ok
       /\ last.r.obj = NoObj
       /\ last.r.err.kind # "none"
       /\ obj_wrap(last.val.slot, last.T) \notin handles

\* a U object, of the same host class as T, was refused as a T
C2_Witness ==
    /\ last.op = "try_convert"
    /\ last.val.tag = "obj"
    /\ slots[last.val.slot].type = "U"
    /\ last.T = "T"
    /\ class("U") = class("T")
    /\ ~last.r.ok

\* C3: every boxed value is allocated once, by wrap, and freed at most
\* once; a step that frees a box is a call of the free trampoline on it,
\* never mark, size, compact, get or a handle copy.
C3_FreedOnlyByFreeOnce ==
    /\ [](\A i \in 1..Len(boxes) :
            /\ boxes[i].allocs = 1
            /\ boxes[i].frees <= 1
            /\ (boxes[i].state = "freed") = (boxes[i].frees = 1))
    /\ [][/\ Len(boxes') >= Len(boxes)
          /\ \A i \in 1..Len(boxes) :
               boxes'[i] # boxes[i] =>
                 /\ last'.op = "gc_free"
                 /\ last'.called
                 /\ last'.ptr = i
                 /\ boxes[i].state = "live"
          /\ (Len(boxes') > Len(boxes) => last'.op = "wrap")]_vars

\* the free trampoline freed a box that mark, size and compact had seen
C3_Witness ==
    /\ last.op = "gc_free"
    /\ last.called
    /\ last.outcome = "return"
    /\ boxes[last.ptr].frees = 1
    /\ slots[last.s].kind = "free"

\* C4: when the native callback of any of the four trampolines panics the
\* process is terminated: the trampoline neither returns nor lets the
\* panic unwind, and nothing runs afterwards (the last operation of a
\* terminated process is that call).
C4_PanicAborts ==
    /\ (last.op \in GcOps /\ last.called /\ last.panicked =>
          last.outcome = "abort" /\ proc = "aborted")
    /\ (proc = "aborted" =>
          last.op \in GcOps /\ last.called /\ last.panicked)

\* a panic in compact terminated the process
C4_Witness ==
    /\ proc = "aborted"
    /\ last.op = "gc_compact"
    /\ last.panicked

\* C10 as stated: without size requested the collector obtains the
\* sizeof estimate of the default DataTypeFunctions::size.
C10_SizeofWhenNotRequested ==
    last.op = "gc_size" /\ "size" \notin ProgramToggles(last.T)
      => last.size = size_of_val(last.T)

\* C10, amended: without size requested the size slot is null, the
\* collector calls no size callback of T and obtains no native estimate
\* (0); the sizeof estimate of the default DataTypeFunctions::size is
\* what it obtains when size was requested.
C10_SizeOnlyWhenRequested ==
    last.op = "gc_size" =>
      /\ ("size" \notin ProgramToggles(last.T) =>
            ~last.called /\ last.size = 0 /\ last.size # size_of_val(last.T))
      /\ ("size" \in ProgramToggles(last.T) /\ ~last.panicked =>
            last.called /\ last.size = size_of_val(last.T))

\* the collector asked for the size of a U, which did not request size
C10_Witness ==
    /\ last.op = "gc_size"
    /\ last.T = "U"
    /\ ~last.called

(* ------------------------------------------------------------------ *)
(* Properties of DataTypeBuilder::build and of DataType's drop          *)
(* ------------------------------------------------------------------ *)
\* C5: the name storage build() allocated for a DataType is released
\* once, when the DataType is dropped: a live DataType owns live storage,
\* a dropped one had its storage released exactly once, and no release
\* ever hit storage that was not allocated.
C5_NameReleasedOnce ==
    /\ cstrs.bad_frees = 0
    /\ \A d \in DescIds :
         /\ (descs[d].state = "none" => cstrs.released[d] = 0)
         /\ (descs[d].state = "live" =>
               /\ cstrs.released[d] = 0
               /\ cstrs.cells[descs[d].wrap_struct_name].live
               /\ cstrs.cells[descs[d].wrap_struct_name].owner = d)
         /\ (descs[d].state = "dropped" =>
               /\ cstrs.released[d] = 1
               /\ ~\E a \in Addrs : cstrs.cells[a].live /\ cstrs.cells[a].owner = d)

\* a second build reused the address a dropped DataType released
C5_Witness ==
    /\ descs[1].state = "dropped"
    /\ descs[2].state = "live"
    /\ descs[2].wrap_struct_name = descs[1].wrap_struct_name

\* C9: whatever toggles were called, the DataType build() returns has its
\* free slot set to T's free trampoline.
C9_FreeAlwaysInstalled ==
    last.op = "build" /\ ~last.panicked =>
      last.dt.function.dfree = Fn("extern_free", last.b.T)

\* a build with no toggle at all
C9_Witness ==
    /\ last.op = "build"
    /\ ~last.panicked
    /\ \A w \in Toggles : DataTypeBuilder_toggle(last.b, w) # last.b

(* ------------------------------------------------------------------ *)
(* Properties of the Hash / IsEql bridge                                *)
(* ------------------------------------------------------------------ *)
\* C6: two native values that are equal under the native Eq hash to the
\* same i64 on every call of typed_data::Hash::hash (unequal values may
\* or may not differ).
C6_EqualValuesHashEqual ==
    \A x \in hashed, y \in hashed :
      eq(boxes[x.ptr].val, boxes[y.ptr].val) => x.h = y.h

\* hash ran on two distinct instances that are equal
C6_Witness ==
    \E x \in hashed, y \in hashed :
      /\ x.ptr # y.ptr
      /\ boxes[x.ptr].val # boxes[y.ptr].val
      /\ eq(boxes[x.ptr].val, boxes[y.ptr].val)

\* other converts to &T: it is typed data carrying T's DataType
ConvertsTo(other, t) ==
    /\ other.tag = "obj"
    /\ slots[other.slot].kind = "typed_data"
    /\ data_type(slots[other.slot].type).id = data_type(t).id

\* C7: is_eql(self, other) returns false, and raises nothing, whenever
\* other does not convert to &T: it is no typed data, or typed data of
\* another DataType.
C7_IsEqlFalseOnForeign ==
    last.op = "is_eql" /\ ~ConvertsTo(last.other, slots[last.s].type)
      => last.r.result = FALSE /\ ~last.r.raised

\* a T was compared with a U of the same host class
C7_Witness ==
    /\ last.op = "is_eql"
    /\ last.other.tag = "obj"
    /\ slots[last.other.slot].type = "U"
    /\ slots[last.other.slot].klass = slots[last.s].klass
    /\ last.r.result = FALSE

\* C8: with the derived hash and is_eql as the host's hash and eql?, a
\* lookup finds the value stored under a key exactly when the lookup key
\* is natively equal to that key, whether or not it is the same instance.
C8_LookupByEquality ==
    last.op = "fetch" =>
      /\ \A i \in 1..Len(rhash) :
           eq(ValOf(rhash[i].key), ValOf(last.k)) =>
             last.found /\ last.val = rhash[i].val
      /\ ((\A i \in 1..Len(rhash) : ~eq(ValOf(rhash[i].key), ValOf(last.k)))
            => ~last.found /\ last.val = "none")

\* a lookup with a distinct, equal instance found the stored value
C8_Witness ==
    /\ last.op = "fetch"
    /\ last.found
    /\ Len(rhash) = 1
    /\ rhash[1].key # last.k
    /\ ValOf(rhash[1].key) # ValOf(last.k)
    /\ last.val = rhash[1].val

(* ------------------------------------------------------------------ *)
\* C11: the compact slot of a built descriptor holds the compact
\* trampoline exactly when compact() was called and the host version is
\* 2.7 or later; on an older host the descriptor has no compact slot
\* whatever toggles were called, and the host version never makes build
\* fail: build returns exactly when it returns on the newest host.
C11_CompactGatedByVersion ==
    last.op = "build" =>
      /\ last.panicked = build(last.b, <<3, 1>>).panicked
      /\ (last.dt.function.dcompact = Fn("extern_compact", last.b.T))
           <=> (last.b.compact /\ ~TupleLt(version, <<2, 7>>))
      /\ (TupleLt(version, <<2, 7>>)
            => last.dt.function.dcompact = AbsentFn)
      /\ (~TupleLt(version, <<2, 7>>) /\ ~last.b.compact
            => last.dt.function.dcompact = NullFn)

\* a build with compact() requested returned on a host older than 2.7
C11_Witness ==
    /\ last.op = "build"
    /\ version = <<2, 6>>
    /\ last.b.compact
    /\ ~last.panicked
    /\ last.dt.function.dcompact = AbsentFn

\* whether a bit is set in a flag word
HasBit(flags, bit) == (flags \div bit) % 2 = 1

\* the flag word holding exactly the bits of the toggles in set on
FlagWord(fi, wb, fs) ==
    (IF fi THEN RUBY_TYPED_FREE_IMMEDIATELY ELSE 0)
    + (IF wb THEN RUBY_TYPED_WB_PROTECTED ELSE 0)
    + (IF fs THEN RUBY_TYPED_FROZEN_SHAREABLE ELSE 0)

\* C12 as stated: each of the three flag bits is set exactly when its
\* toggle was called, whatever the host version, and no other bit is set.
C12_FlagsFollowToggles ==
    last.op = "build" /\ ~last.panicked =>
      last.dt.flags = FlagWord(last.b.free_immediately, last.b.wb_protected,
                               last.b.frozen_shareable)

\* C12: the free-immediately and write-barrier bits are set exactly when
\* their toggles were called; the frozen-shareable bit is set exactly when
\* its toggle was called and the host version is 3.0 or later; each bit is
\* independent of the other toggles and no other bit is set.
C12_FlagsFollowTogglesOnHost ==
    last.op = "build" /\ ~last.panicked =>
      /\ HasBit(last.dt.flags, RUBY_TYPED_FREE_IMMEDIATELY)
           <=> last.b.free_immediately
      /\ HasBit(last.dt.flags, RUBY_TYPED_WB_PROTECTED)
           <=> last.b.wb_protected
      /\ HasBit(last.dt.flags, RUBY_TYPED_FROZEN_SHAREABLE)
           <=> (last.b.frozen_shareable /\ ~TupleLt(version, <<3, 0>>))
      /\ last.dt.flags =
           FlagWord(HasBit(last.dt.flags, RUBY_TYPED_FREE_IMMEDIATELY),
                    HasBit(last.dt.flags, RUBY_TYPED_WB_PROTECTED),
                    HasBit(last.dt.flags, RUBY_TYPED_FROZEN_SHAREABLE))

\* frozen_shareable() was called before a build on a host older than 3.0
\* and the descriptor has the other requested bit only
C12_Witness ==
    /\ last.op = "build"
    /\ ~last.panicked
    /\ version = <<2, 7>>
    /\ last.b.frozen_shareable
    /\ last.b.wb_protected
    /\ ~last.b.free_immediately
    /\ last.dt.flags = RUBY_TYPED_WB_PROTECTED

\* C13: a checked conversion of a value that is not a typed-data object
\* yields no handle but the type error "no implicit conversion of
\* <actual> into <expected>", with the value's class name and T::class();
\* the Descriptor check's error only ever comes from a typed-data object.
C13_KindErrorNamesClasses ==
    last.op = "try_convert" =>
      /\ (last.val.tag # "obj" \/ slots[last.val.slot].kind # "typed_data")
           => /\ ~last.r.ok
              /\ last.r.obj = NoObj
              /\ last.r.err.kind = "no implicit conversion"
              /\ last.r.err.actual =
                   (CASE last.val.tag = "nil" -> "NilClass"
                      [] last.val.tag = "rdata" -> "Object"
                      [] last.val.tag = "obj" -> slots[last.val.slot].klass)
              /\ last.r.err.expected = class(last.T)
      /\ last.r.err.kind = "wrong argument type"
           => last.val.tag = "obj" /\ slots[last.val.slot].kind = "typed_data"

\* nil was converted to Obj<T> and the error names NilClass and T's class
C13_Witness ==
    /\ last.op = "try_convert"
    /\ last.val.tag = "nil"
    /\ last.T = "T"
    /\ ~last.r.ok
    /\ last.r.obj = NoObj
    /\ last.r.err = NoImplicitConversion("NilClass", class("T"))

\* C14: every typed handle the program holds designates an allocated
\* typed-data slot whose native value is not freed, and a get through a
\* handle never meets a reclaimed slot and never fails.
C14_HandleDesignatesLiveSlot ==
    /\ \A h \in handles :
         /\ slots[h.inner].kind = "typed_data"
         /\ boxes[slots[h.inner].data].state = "live"
    /\ last.op = "get" => ~last.dangling /\ ~last.r.panicked

\* C15: a wrap called where no host runtime is bound to the thread
\* panics: it yields no handle and no error value, and allocates nothing
\* in the host or natively; a wrap on the host's thread always yields a
\* handle.
C15_WrapNeedsRuntime ==
    [][last'.op = "wrap" =>
           IF last'.th = "ruby"
           THEN /\ ~last'.panicked
                /\ last'.obj \in handles'
                /\ Len(boxes') = Len(boxes) + 1
           ELSE /\ last'.panicked
                /\ last'.obj = NoObj
                /\ slots' = slots
                /\ boxes' = boxes
                /\ handles' = handles]_vars

\* a wrap off the host's thread panicked while a slot was free
C15_Witness ==
    /\ last.op = "wrap"
    /\ last.th = "other"
    /\ last.panicked
    /\ \E s \in Slots : slots[s].kind = "free"
    /\ Len(boxes) < MaxWraps

\* C16: build returns a descriptor whatever bytes the builder's name
\* holds: no build panics.
C16_BuildReturnsForEveryName ==
    last.op = "build" => ~last.panicked /\ last.d # 0

\* the scalar value a sequence of w bytes starting at v[i] encodes
ScalarOf(v, i, w) ==
    CASE w = 1 -> v[i]
      [] w = 2 -> (v[i] - 192) * 64 + (v[i + 1] - 128)
      [] w = 3 -> (v[i] - 224) * 4096 + (v[i + 1] - 128) * 64
                  + (v[i + 2] - 128)
      [] w = 4 -> (v[i] - 240) * 262144 + (v[i + 1] - 128) * 4096
                  + (v[i + 2] - 128) * 64 + (v[i + 3] - 128)

\* the width the bit pattern of a leading byte announces
LeadWidth(b) ==
    CASE b < 128 -> 1
      [] b \in 192..223 -> 2
      [] b \in 224..239 -> 3
      [] b \in 240..247 -> 4
      [] OTHER -> 0

\* the least scalar value that needs w bytes
MinScalar(w) == CASE w = 1 -> 0 [] w = 2 -> 128 [] w = 3 -> 2048
                  [] w = 4 -> 65536

\* well-formed UTF-8 from byte i on: shortest-form encodings of Unicode
\* scalar values (no surrogates, nothing above U+10FFFF)
RECURSIVE WellFormedFrom(_, _)
WellFormedFrom(v, i) ==
    \/ i > Len(v)
    \/ LET w == LeadWidth(v[i])
       IN /\ w # 0
          /\ i + w - 1 <= Len(v)
          /\ \A j \in (i + 1)..(i + w - 1) : v[j] \in 128..191
          /\ ScalarOf(v, i, w) >= MinScalar(w)
          /\ ScalarOf(v, i, w) <= 1114111
          /\ ScalarOf(v, i, w) \notin 55296..57343
          /\ WellFormedFrom(v, i + w)

\* C17: as_str yields an encoding error and no slice when the string's
\* encoding label is neither UTF-8 nor US-ASCII, or when the label is one
\* of the two but the bytes are not well-formed UTF-8; otherwise it
\* yields exactly the string's bytes.
C17_AsStrChecksLabelAndBytes ==
    last.op = "as_str" =>
      IF rstring.enc \in {"UTF-8", "US-ASCII"}
         /\ WellFormedFrom(rstring.bytes, 1)
      THEN last.r.ok /\ last.r.str = rstring.bytes /\ last.r.err = NoErr
      ELSE /\ ~last.r.ok
           /\ last.r.str = <<>>
           /\ last.r.err.kind = "encoding_error"

\* as_str refused a string labelled UTF-8 whose bytes are an overlong
\* three-byte sequence
C17_Witness ==
    /\ last.op = "as_str"
    /\ rstring = [enc |-> "UTF-8", bytes |-> <<224, 128, 128>>]
    /\ ~last.r.ok
    /\ last.r.err = encoding_error(<<"Utf8Error", 0>>)

\* C18: the free trampoline takes the boxed value by ownership, so each
\* execution of it runs the value's destructor exactly once, when free
\* returns and also when free panics and the process is then aborted; no
\* value is destroyed twice and none is destroyed by anything else.
C18_DestructorRunsOnce ==
    /\ \A i \in 1..Len(boxes) :
         boxes[i].drops = IF boxes[i].state = "freed" THEN 1 ELSE 0
    /\ last.op = "gc_free" /\ last.called =>
         /\ boxes[last.ptr].drops = 1
         /\ boxes[last.ptr].state = "freed"
         /\ (last.panicked => proc = "aborted")

\* a free that panicked: the value was destroyed and the process aborted
C18_Witness ==
    /\ last.op = "gc_free"
    /\ last.called
    /\ last.panicked
    /\ proc = "aborted"
    /\ boxes[last.ptr].drops = 1

\* C19: the mark slot of a built descriptor holds the mark trampoline
\* exactly when mark() was called and is null otherwise, the size slot
\* holds the size trampoline exactly when size() was called, and the
\* parent and user-data fields are null whatever the toggles.
C19_MarkAndSizeOnRequest ==
    last.op = "build" /\ ~last.panicked =>
      /\ last.dt.function.dmark =
           (IF last.b.mark THEN [fn |-> "extern_mark", T |-> last.b.T]
            ELSE [fn |-> "null", T |-> "-"])
      /\ last.dt.function.dsize =
           (IF last.b.size THEN [fn |-> "extern_size", T |-> last.b.T]
            ELSE [fn |-> "null", T |-> "-"])
      /\ last.dt.parent = "null"
      /\ last.dt.data = "null"

\* a descriptor built with size() but without mark(): null mark slot
C19_Witness ==
    /\ last.op = "build"
    /\ ~last.panicked
    /\ last.b.size
    /\ ~last.b.mark
    /\ last.dt.function.dmark = NullFn
    /\ last.dt.function.dsize = Fn("extern_size", last.b.T)

\* the u64 the native hasher finishes with for a value
NativeHash(v) == finish(std_hash(v, DefaultHasher_new))

\* C20: hash returns the u64 native hash h reinterpreted as an i64: h
\* itself when h < 2^63 and h - 2^64 otherwise (the same limbs, the first
\* one lowered by 2^16), always within the i64 range, and two distinct
\* native hashes never give the same result.
C20_HashReinterpretsBits ==
    /\ (last.op = "hash" =>
          LET u == NativeHash(boxes[slots[last.s].data].val)
          IN /\ (u[1] < HalfLimb => last.h = u)
             /\ (u[1] >= HalfLimb =>
                   /\ last.h[1] = u[1] - Limb
                   /\ \A i \in 2..4 : last.h[i] = u[i])
             /\ last.h[1] \in (0 - HalfLimb)..(HalfLimb - 1)
             /\ \A i \in 2..4 : last.h[i] \in 0..(Limb - 1))
    /\ \A x \in hashed, y \in hashed :
         NativeHash(boxes[x.ptr].val) # NativeHash(boxes[y.ptr].val)
           => x.h # y.h

\* hash ran on a value whose native hash is 2^63 or more, and on one
\* whose native hash is less: a negative and a non-negative result
C20_Witness ==
    /\ last.op = "hash"
    /\ NativeHash(boxes[slots[last.s].data].val)[1] >= HalfLimb
    /\ last.h[1] < 0
    /\ \E y \in hashed : y.h[1] >= 0

\* C21: while the object wrap made for v is allocated, turning wrap's
\* handle into an untyped Value and converting that back to Obj<T>
\* succeeds, the handle obtained designates the same host object and get
\* on it yields v; every conversion of a T object to Obj<T> the program
\* makes yields a handle to that object, and a copy of a handle is a
\* handle to the same host object, made without consulting the heap.
C21_ValueRoundTrip ==
    /\ \A i \in 1..Len(boxes) :
         Unfreed(i) =>
           LET h == obj_wrap(boxes[i].slot, boxes[i].T)
               r == try_convert(slots, boxes, Obj_into_value(h), boxes[i].T)
           IN /\ r.ok
              /\ r.err = NoErr
              /\ r.obj.inner = h.inner
              /\ r.obj.T = h.T
              /\ Obj_get(slots, boxes, r.obj)
                   = [panicked |-> FALSE, val |-> boxes[i].val]
    /\ (last.op = "try_convert" /\ last.val.tag = "obj"
          /\ slots[last.val.slot].kind = "typed_data"
          /\ slots[last.val.slot].type = last.T
        => /\ last.r.ok
           /\ last.r.obj.inner = last.val.slot
           /\ last.r.obj.T = last.T
           /\ last.r.obj \in handles)
    /\ (last.op = "copy" =>
          /\ last.obj.inner = last.h.inner
          /\ last.obj.T = last.h.T
          /\ last.obj \in handles)

\* the Value of a wrapped T was converted back to Obj<T>: the handle got
\* designates the object and get on it yields the wrapped value
C21_Witness ==
    /\ last.op = "try_convert"
    /\ last.T = "T"
    /\ last.val.tag = "obj"
    /\ last.r.ok
    /\ last.r.obj.inner = last.val.slot
    /\ \E i \in 1..Len(boxes) :
         /\ Unfreed(i)
         /\ boxes[i].slot = last.val.slot
         /\ Obj_get(slots, boxes, last.r.obj)
              = [panicked |-> FALSE, val |-> boxes[i].val]

\* whether the probe printed ruby_<rel>_<v>
Emitted(rel, v) == Cfg(rel, v) \in probe.cfgs

\* the number of the cfgs ruby_lt_v, ruby_v, ruby_gt_v the probe printed
OneOfThree(v) ==
    Cardinality({rel \in {"lt", "eq", "gt"} : Emitted(rel, v)})

\* C22: for every host version and every v of RUBY_VERSIONS the probe
\* has gone through, exactly one of ruby_lt_v, ruby_v, ruby_gt_v is
\* printed, ruby_lte_v iff ruby_lt_v or ruby_v, ruby_gte_v iff ruby_gt_v
\* or ruby_v, so exactly one of ruby_gte_v and ruby_lt_v; nothing is
\* printed for a v not yet gone through; and, once the probe has
\* finished, ruby_gte_3_0 implies ruby_gte_2_7.
C22_ProbeFlagsConsistent ==
    /\ \A k \in 1..Len(RUBY_VERSIONS) :
         LET v == RUBY_VERSIONS[k]
         IN IF k <= probe.i
            THEN /\ OneOfThree(v) = 1
                 /\ Emitted("lte", v) <=> (Emitted("lt", v) \/ Emitted("eq", v))
                 /\ Emitted("gte", v) <=> (Emitted("gt", v) \/ Emitted("eq", v))
                 /\ Emitted("gte", v) # Emitted("lt", v)
            ELSE \A rel \in {"lt", "lte", "eq", "gte", "gt"} : ~Emitted(rel, v)
    /\ probe.i = Len(RUBY_VERSIONS) =>
         (Emitted("gte", <<3, 0>>) => Emitted("gte", <<2, 7>>))

\* the probe finished on host 3.0: ruby_3_0, ruby_gte_2_7 and ruby_lt_3_1
\* are printed, ruby_lt_3_0 is not
C22_Witness ==
    /\ probe.i = Len(RUBY_VERSIONS)
    /\ version = <<3, 0>>
    /\ Emitted("eq", <<3, 0>>)
    /\ Emitted("gte", <<3, 0>>)
    /\ Emitted("gte", <<2, 7>>)
    /\ Emitted("lt", <<3, 1>>)
    /\ ~Emitted("lt", <<3, 0>>)

====
